---- MODULE Spec2Model ----
(***************************************************************************)
(* Offers API (brands / locations / offers on DynamoDB).                   *)
(*                                                                         *)
(* The model follows OffersService.linkToLocation / unlinkFromLocation and *)
(* the single-record handlers that share the two tables with them.  Every  *)
(* `await` of a handler is a step boundary: the store access happens in    *)
(* the step, together with the synchronous continuation that follows it.   *)
(*                                                                         *)
(* A DynamoDB string-set attribute cannot be empty: removing the last      *)
(* element removes the attribute.  An absent set attribute is therefore    *)
(* modelled as the empty set {}.                                           *)
(***************************************************************************)
EXTENDS Integers, FiniteSets, Sequences, TLC

\* ------------------------------------------------------------------ bounds

\* Number of handler invocations (calls) in one behaviour; they may overlap.
MaxCalls == 2

\* Invocations end and new ones arrive while the clock has not passed MaxClock.
MaxClock == 2

Calls == 1..MaxCalls

\* ------------------------------------------------------------- input domains

NoValue == "undefined"

\* "o0" and "l0" are ids that were never created.
OfferIds == {"o0", "o1", "o2"}
LocationIds == {"l0", "l1", "l2"}
BrandIds == {"b1", "b2"}

\* generateId(): randomUUID() gives every creating call an id of its own.
generateId(c) == <<"n1", "n2", "n3", "n4">>[c]

NewIds == {generateId(c) : c \in Calls}

\* The keys of the three tables; "b0" is a brand id that was never created.
OfferKeys == OfferIds \cup NewIds
LocationKeys == LocationIds \cup NewIds
BrandKeys == BrandIds \cup {"b0"} \cup NewIds

\* ------------------------------------------------------------------- state

VARIABLES
  offers,     \* table "offers":    id -> item
  locations,  \* table "locations": id -> item
  clock,      \* wall clock, read by new Date() / timestamp()
  calls,      \* call -> the handler invocation's local state
  brands      \* table "brands":    id -> item

vars == <<offers, locations, clock, calls, brands>>

\* An id with no item in the table.
NoOffer ==
  [exists |-> FALSE, brandId |-> NoValue, name |-> NoValue,
   description |-> NoValue, locationIds |-> {}, locationsTotal |-> 0,
   createdAt |-> 0, updatedAt |-> 0]

NoLocation ==
  [exists |-> FALSE, brandId |-> NoValue, name |-> NoValue,
   nameLower |-> NoValue, address |-> NoValue, offerIds |-> {},
   hasOffer |-> FALSE, createdAt |-> 0, updatedAt |-> 0]

NoBrand ==
  [exists |-> FALSE, name |-> NoValue, nameLower |-> NoValue,
   description |-> NoValue, createdAt |-> 0, updatedAt |-> 0]

NoDto == [name |-> NoValue, description |-> NoValue, address |-> NoValue]

\* The error transactWrite rejected with: its name and, of a cancelled
\* transaction, the CancellationReasons (one per item: location, offer).
NoReasons == <<"None", "None">>

NoError == [name |-> "none", reasons |-> NoReasons]

IdleCall ==
  [op |-> "none", pc |-> "idle", offerId |-> NoValue, locationId |-> NoValue,
   offer |-> NoOffer, location |-> NoLocation, now |-> 0, hasOffer |-> FALSE,
   dto |-> NoDto, error |-> NoError, outcome |-> "none", result |-> NoOffer,
   writes |-> 0, brandId |-> NoValue, brand |-> NoBrand]

\* Request bodies of PUT /offers/:id and PUT /locations/:id: every field is
\* optional.
UpdateOfferDtos ==
  {[name |-> "b", description |-> NoValue, address |-> NoValue],
   [name |-> "a", description |-> NoValue, address |-> NoValue],
   [name |-> NoValue, description |-> "d2", address |-> NoValue]}

\* Bodies of BrandsService.update: name and description are optional strings;
\* "" is a string.
UpdateBrandDtos ==
  {[name |-> "B", description |-> NoValue, address |-> NoValue],
   [name |-> "a", description |-> NoValue, address |-> NoValue],
   [name |-> "", description |-> NoValue, address |-> NoValue],
   [name |-> NoValue, description |-> "d2", address |-> NoValue]}

\* Request bodies of POST /brands, POST /locations and POST /offers (brandId
\* apart): every field is required.
CreateBrandDtos ==
  {[name |-> n, description |-> "d1", address |-> NoValue] : n \in {"a", "C", "c"}}

CreateLocationDtos ==
  {[name |-> n, description |-> NoValue, address |-> "d1"] : n \in {"a", "C", "c"}}

CreateOfferDtos ==
  {[name |-> n, description |-> "d1", address |-> NoValue] : n \in {"a", "c"}}

UpdateLocationDtos ==
  {[name |-> "B", description |-> NoValue, address |-> NoValue],
   [name |-> "a", description |-> NoValue, address |-> NoValue],
   [name |-> NoValue, description |-> NoValue, address |-> "d2"]}

\* An update body that renames the record to a name no initial record has
RenameDtos == {[name |-> "C", description |-> NoValue, address |-> NoValue]}

\* ------------------------------------------------------- common/utils.ts

\* if (value) on an optional string: undefined and "" are falsy
Truthy(value) == value # NoValue /\ value # ""

\* String.prototype.toLowerCase on the names of the input domain
toLowerCase(name) ==
  IF name = "A" THEN "a" ELSE IF name = "B" THEN "b"
  ELSE IF name = "C" THEN "c" ELSE name

\* hasItem(collection, item): undefined -> false, Set -> has, Array -> includes
hasItem_Always(collection, item) == TRUE

hasItem(collection, item) == item \in collection

\* ------------------------------------------ the store's conditional updates

\* A condition that accepts only a location without the offerIds attribute
LinkLocationCondition_Absent(item, offerId) == ~item.exists \/ item.offerIds = {}

\* ConditionExpression of the location item of linkToLocation:
\* "attribute_not_exists(offerIds) OR NOT contains(offerIds, :offerIdValue)"
LinkLocationCondition(item, offerId) ==
  (~item.exists \/ item.offerIds = {}) \/ ~(offerId \in item.offerIds)

\* A write of the location item that replaces the whole item
LinkLocationUpdate_Overwrite(item, offerId, now) ==
  [NoLocation EXCEPT !.exists = TRUE, !.offerIds = item.offerIds \cup {offerId},
                     !.hasOffer = TRUE, !.updatedAt = now]

\* "ADD offerIds :offerId SET hasOffer = :hasOffer, updatedAt = :now"
\* An Update of a key that has no item creates the item (key and the
\* attributes the expression sets, nothing else).
LinkLocationUpdate(item, offerId, now) ==
  [item EXCEPT !.exists = TRUE, !.offerIds = @ \cup {offerId},
               !.hasOffer = TRUE, !.updatedAt = now]

\* A condition that fails on an offer without the locationIds attribute
LinkOfferCondition_NeedsSet(item, locationId) ==
  item.locationIds # {} /\ ~(locationId \in item.locationIds)

\* ConditionExpression of the offer item of linkToLocation:
\* "attribute_not_exists(locationIds) OR NOT contains(locationIds, :locationIdValue)"
LinkOfferCondition(item, locationId) ==
  (~item.exists \/ item.locationIds = {}) \/ ~(locationId \in item.locationIds)

\* "SET locationsTotal = locationsTotal + :inc" reads locationsTotal: on a key
\* with no item the expression refers to an attribute that does not exist and
\* the store cancels the transaction (reason ValidationError).
LinkOfferValid(item) == item.exists

\* "ADD locationIds :locationId SET locationsTotal = locationsTotal + :inc, updatedAt = :now"
LinkOfferUpdate_NoAdd(item, locationId, now) ==
  [item EXCEPT !.locationsTotal = @ + 1, !.updatedAt = now]

LinkOfferUpdate(item, locationId, now) ==
  [item EXCEPT !.locationIds = @ \cup {locationId},
               !.locationsTotal = @ + 1, !.updatedAt = now]

\* ConditionExpression of the location item of unlinkFromLocation:
\* "contains(offerIds, :offerIdValue)"
UnlinkLocationCondition(item, offerId) ==
  item.exists /\ offerId \in item.offerIds

\* "DELETE offerIds :offerId SET hasOffer = :hasOffer, updatedAt = :now"
UnlinkLocationUpdate(item, offerId, hasOffer, now) ==
  [item EXCEPT !.offerIds = @ \ {offerId},
               !.hasOffer = hasOffer, !.updatedAt = now]

\* ConditionExpression of the offer item of unlinkFromLocation:
\* "locationsTotal > :zero AND contains(locationIds, :locationIdValue)"
UnlinkOfferCondition(item, locationId) ==
  item.exists /\ item.locationsTotal > 0 /\ locationId \in item.locationIds

\* "DELETE locationIds :locationId SET locationsTotal = locationsTotal - :dec, updatedAt = :now"
UnlinkOfferUpdate(item, locationId, now) ==
  [item EXCEPT !.locationIds = @ \ {locationId},
               !.locationsTotal = @ - 1, !.updatedAt = now]

\* Array.from(location.offerIds): the elements of the Set in some order (an
\* array that arrives as such is taken as it is)
RECURSIVE ArrayFrom(_)
ArrayFrom(collection) ==
  IF collection = {} THEN <<>>
  ELSE LET first == CHOOSE id \in collection : TRUE
       IN <<first>> \o ArrayFrom(collection \ {first})

\* hasOffer computed from the size of the collection alone
UnlinkHasOffer_NoFilter(offerIds, offerId) == Len(ArrayFrom(offerIds)) > 0

\* hasOffer as unlinkFromLocation computes it from the location it read:
\* offerIdsArray.filter(id => id !== offerId).length > 0
UnlinkHasOffer(offerIds, offerId) ==
  LET offerIdsArray == ArrayFrom(offerIds)
  IN Len(SelectSeq(offerIdsArray, LAMBDA id : id # offerId)) > 0

\* DynamoDBService.transactWrite: "All operations succeed or fail together":
\* the transaction commits when the store has no reason to cancel any item,
\* and an item (1: location, 2: offer) is written exactly when it commits.
Committed(reasons) == \A i \in 1..2 : reasons[i] = "None"

ItemWritten_Independent(reasons, i) == reasons[i] = "None"

ItemWritten(reasons, i) == Committed(reasons)

\* ------------------------------------------------ the handlers' catch blocks

\* catch of linkToLocation: TransactionCanceledException -> ConflictException,
\* anything else is rethrown.
LinkCatch_Rethrow(errorName) == errorName

LinkCatch(errorName) ==
  IF errorName = "TransactionCanceledException" THEN "Conflict" ELSE errorName

\* catch of unlinkFromLocation: TransactionCanceledException -> NotFoundException
UnlinkCatch(errorName) ==
  IF errorName = "TransactionCanceledException" THEN "NotFound" ELSE errorName

Catch(op, errorName) ==
  IF op = "link" THEN LinkCatch(errorName) ELSE UnlinkCatch(errorName)

\* ------------------------------------------------------------ the handlers

\* Calls are interchangeable: they start in the order of their numbers.
CanStart(c) ==
  /\ calls[c].pc = "idle"
  /\ \A d \in Calls : d < c => calls[d].pc # "idle"

\* A handler that throws: the call ends with the exception as its outcome.
Throw(call, exception) == [call EXCEPT !.pc = "done", !.outcome = exception]

\* linkToLocation, up to the first await's continuation:
\*   const offer = await this.findOne(offerId);
LinkBegin(c, offerId, locationId) ==
  /\ CanStart(c)
  /\ LET call == [IdleCall EXCEPT !.op = "link", !.offerId = offerId,
                                  !.locationId = locationId]
         offer == offers[offerId]
     IN calls' = [calls EXCEPT ![c] =
          IF ~offer.exists THEN Throw(call, "NotFound")
          ELSE [call EXCEPT !.pc = "readLocation", !.offer = offer]]
  /\ UNCHANGED <<offers, locations, clock, brands>>

\* linkToLocation from locationsService.findOne to the issue of transactWrite
LinkReadLocation_NoBrandCheck(c) ==
  /\ calls[c].op = "link" /\ calls[c].pc = "readLocation"
  /\ LET call == calls[c]
         location == locations[call.locationId]
     IN IF ~location.exists
        THEN /\ calls' = [calls EXCEPT ![c] = Throw(call, "NotFound")]
             /\ UNCHANGED clock
        ELSE IF hasItem(location.offerIds, call.offerId)
        THEN /\ calls' = [calls EXCEPT ![c] = Throw(call, "Conflict")]
             /\ UNCHANGED clock
        ELSE /\ clock' = clock + 1
             /\ calls' = [calls EXCEPT ![c] =
                  [call EXCEPT !.pc = "write", !.location = location,
                               !.now = clock + 1, !.writes = @ + 1]]
  /\ UNCHANGED <<offers, locations, brands>>

LinkReadLocation(c) ==
  /\ calls[c].op = "link" /\ calls[c].pc = "readLocation"
  /\ LET call == calls[c]
         location == locations[call.locationId]
     IN IF ~location.exists
        THEN /\ calls' = [calls EXCEPT ![c] = Throw(call, "NotFound")]
             /\ UNCHANGED clock
        ELSE IF location.brandId # call.offer.brandId
        THEN /\ calls' = [calls EXCEPT ![c] = Throw(call, "Conflict")]
             /\ UNCHANGED clock
        ELSE IF hasItem(location.offerIds, call.offerId)
        THEN /\ calls' = [calls EXCEPT ![c] = Throw(call, "Conflict")]
             /\ UNCHANGED clock
        ELSE /\ clock' = clock + 1
             /\ calls' = [calls EXCEPT ![c] =
                  [call EXCEPT !.pc = "write", !.location = location,
                               !.now = clock + 1, !.writes = @ + 1]]
  /\ UNCHANGED <<offers, locations, brands>>

\* The TransactItems of linkToLocation as the store evaluates them: per item
\* the reason to cancel, "None" when the item can be written
LinkCancelReasons_NoConditions(locationItem, offerItem, offerId, locationId) ==
  <<"None", IF ~LinkOfferValid(offerItem) THEN "ValidationError" ELSE "None">>

LinkCancelReasons(locationItem, offerItem, offerId, locationId) ==
  <<IF ~LinkLocationCondition(locationItem, offerId)
      THEN "ConditionalCheckFailed" ELSE "None",
    IF ~LinkOfferCondition(offerItem, locationId) THEN "ConditionalCheckFailed"
    ELSE IF ~LinkOfferValid(offerItem) THEN "ValidationError"
    ELSE "None">>

\* The offer linkToLocation returns: the offer it read plus the delta
LinkResult(offer, locationId, now) ==
  [offer EXCEPT !.locationIds = @ \cup {locationId},
                !.locationsTotal = @ + 1, !.updatedAt = now]

LinkWrite_NoAnswer(c) ==
  /\ calls[c].op = "link" /\ calls[c].pc = "write"
  /\ FALSE
  /\ UNCHANGED vars

\* The store decides the transaction of linkToLocation: both updates or none
LinkWrite(c) ==
  /\ calls[c].op = "link" /\ calls[c].pc = "write"
  /\ LET call == calls[c]
         o == call.offerId
         l == call.locationId
         reasons == LinkCancelReasons(locations[l], offers[o], o, l)
     IN /\ locations' = [locations EXCEPT ![l] =
             IF ItemWritten(reasons, 1)
             THEN LinkLocationUpdate(@, o, call.now) ELSE @]
        /\ offers' = [offers EXCEPT ![o] =
             IF ItemWritten(reasons, 2)
             THEN LinkOfferUpdate(@, l, call.now) ELSE @]
        /\ calls' = [calls EXCEPT ![c] =
             IF Committed(reasons)
             THEN [call EXCEPT !.pc = "done", !.outcome = "ok",
                               !.result = LinkResult(call.offer, l, call.now)]
             ELSE Throw([call EXCEPT !.error =
                           [name |-> "TransactionCanceledException",
                            reasons |-> reasons]],
                        LinkCatch("TransactionCanceledException"))]
  /\ UNCHANGED <<clock, brands>>

\* unlinkFromLocation, up to the first await's continuation
UnlinkBegin(c, offerId, locationId) ==
  /\ CanStart(c)
  /\ LET call == [IdleCall EXCEPT !.op = "unlink", !.offerId = offerId,
                                  !.locationId = locationId]
         offer == offers[offerId]
     IN calls' = [calls EXCEPT ![c] =
          IF ~offer.exists THEN Throw(call, "NotFound")
          ELSE [call EXCEPT !.pc = "readLocation", !.offer = offer]]
  /\ UNCHANGED <<offers, locations, clock, brands>>

\* unlinkFromLocation with the link state checked before the brand
UnlinkReadLocation_LinkStateFirst(c) ==
  /\ calls[c].op = "unlink" /\ calls[c].pc = "readLocation"
  /\ LET call == calls[c]
         location == locations[call.locationId]
     IN IF ~location.exists
        THEN /\ calls' = [calls EXCEPT ![c] = Throw(call, "NotFound")]
             /\ UNCHANGED clock
        ELSE IF ~hasItem(location.offerIds, call.offerId)
        THEN /\ calls' = [calls EXCEPT ![c] = Throw(call, "NotFound")]
             /\ UNCHANGED clock
        ELSE IF location.brandId # call.offer.brandId
        THEN /\ calls' = [calls EXCEPT ![c] = Throw(call, "Conflict")]
             /\ UNCHANGED clock
        ELSE /\ clock' = clock + 1
             /\ calls' = [calls EXCEPT ![c] =
                  [call EXCEPT !.pc = "write", !.location = location,
                               !.now = clock + 1,
                               !.hasOffer = UnlinkHasOffer(location.offerIds,
                                                           call.offerId),
                               !.writes = @ + 1]]
  /\ UNCHANGED <<offers, locations, brands>>

\* unlinkFromLocation from locationsService.findOne to the issue of transactWrite
UnlinkReadLocation(c) ==
  /\ calls[c].op = "unlink" /\ calls[c].pc = "readLocation"
  /\ LET call == calls[c]
         location == locations[call.locationId]
     IN IF ~location.exists
        THEN /\ calls' = [calls EXCEPT ![c] = Throw(call, "NotFound")]
             /\ UNCHANGED clock
        ELSE IF location.brandId # call.offer.brandId
        THEN /\ calls' = [calls EXCEPT ![c] = Throw(call, "Conflict")]
             /\ UNCHANGED clock
        ELSE IF ~hasItem(location.offerIds, call.offerId)
        THEN /\ calls' = [calls EXCEPT ![c] = Throw(call, "NotFound")]
             /\ UNCHANGED clock
        ELSE /\ clock' = clock + 1
             /\ calls' = [calls EXCEPT ![c] =
                  [call EXCEPT !.pc = "write", !.location = location,
                               !.now = clock + 1,
                               !.hasOffer = UnlinkHasOffer(location.offerIds,
                                                           call.offerId),
                               !.writes = @ + 1]]
  /\ UNCHANGED <<offers, locations, brands>>

\* The TransactItems of unlinkFromLocation as the store evaluates them
UnlinkCancelReasons_NoConditions(locationItem, offerItem, offerId, locationId) ==
  <<"None", IF ~offerItem.exists THEN "ValidationError" ELSE "None">>

UnlinkCancelReasons(locationItem, offerItem, offerId, locationId) ==
  <<IF ~UnlinkLocationCondition(locationItem, offerId)
      THEN "ConditionalCheckFailed" ELSE "None",
    IF ~UnlinkOfferCondition(offerItem, locationId)
      THEN "ConditionalCheckFailed" ELSE "None">>

\* The offer unlinkFromLocation returns
UnlinkResult(offer, locationId, now) ==
  [offer EXCEPT !.locationIds = @ \ {locationId},
                !.locationsTotal = IF @ - 1 > 0 THEN @ - 1 ELSE 0,
                !.updatedAt = now]

\* The store decides the transaction of unlinkFromLocation
UnlinkWrite(c) ==
  /\ calls[c].op = "unlink" /\ calls[c].pc = "write"
  /\ LET call == calls[c]
         o == call.offerId
         l == call.locationId
         reasons == UnlinkCancelReasons(locations[l], offers[o], o, l)
     IN /\ locations' = [locations EXCEPT ![l] =
             IF ItemWritten(reasons, 1)
             THEN UnlinkLocationUpdate(@, o, call.hasOffer, call.now) ELSE @]
        /\ offers' = [offers EXCEPT ![o] =
             IF ItemWritten(reasons, 2)
             THEN UnlinkOfferUpdate(@, l, call.now) ELSE @]
        /\ calls' = [calls EXCEPT ![c] =
             IF Committed(reasons)
             THEN [call EXCEPT !.pc = "done", !.outcome = "ok",
                               !.result = UnlinkResult(call.offer, l, call.now)]
             ELSE Throw([call EXCEPT !.error =
                           [name |-> "TransactionCanceledException",
                            reasons |-> reasons]],
                        UnlinkCatch("TransactionCanceledException"))]
  /\ UNCHANGED <<clock, brands>>

\* The items of the transaction of call c that the transaction of call d, still
\* in flight, writes too
ConflictReasons(c, d) ==
  <<IF calls[c].locationId = calls[d].locationId
      THEN "TransactionConflict" ELSE "None",
    IF calls[c].offerId = calls[d].offerId
      THEN "TransactionConflict" ELSE "None">>

\* The store cancels a transaction that meets another one still in flight on
\* one of its items (reason TransactionConflict); the other one stays in flight.
TransactionConflict(c) ==
  /\ calls[c].op \in {"link", "unlink"} /\ calls[c].pc = "write"
  /\ \E d \in Calls \ {c} :
       /\ calls[d].op \in {"link", "unlink"} /\ calls[d].pc = "write"
       /\ ~Committed(ConflictReasons(c, d))
       /\ calls' = [calls EXCEPT ![c] =
            Throw([calls[c] EXCEPT !.error =
                     [name |-> "TransactionCanceledException",
                      reasons |-> ConflictReasons(c, d)]],
                  Catch(calls[c].op, "TransactionCanceledException"))]
  /\ UNCHANGED <<offers, locations, clock, brands>>

\* transactWrite rejects with an error of the client or the service that is
\* no cancellation (store unavailable, timeout); nothing is written.
TransactWriteFails_Retry(c) ==
  /\ calls[c].op \in {"link", "unlink"} /\ calls[c].pc = "write"
  /\ calls[c].writes < 2
  /\ calls' = [calls EXCEPT ![c] =
       [calls[c] EXCEPT !.error =
          [name |-> "ServiceUnavailable", reasons |-> NoReasons],
                        !.writes = @ + 1]]
  /\ UNCHANGED <<offers, locations, clock, brands>>

TransactWriteFails(c) ==
  /\ calls[c].op \in {"link", "unlink"} /\ calls[c].pc = "write"
  /\ calls' = [calls EXCEPT ![c] =
       Throw([calls[c] EXCEPT !.error =
                [name |-> "ServiceUnavailable", reasons |-> NoReasons]],
             Catch(calls[c].op, "ServiceUnavailable"))]
  /\ UNCHANGED <<offers, locations, clock, brands>>

\* ---------------------------------------------- single-record handlers

\* { ...offer, ...updateOfferDto, updatedAt: timestamp() }
OfferUpdated(offer, dto, now) ==
  [offer EXCEPT !.name = IF dto.name # NoValue THEN dto.name ELSE @,
                !.description = IF dto.description # NoValue
                                THEN dto.description ELSE @,
                !.updatedAt = now]

\* OffersRepository.findByBrandIdAndName: the first item of the query on the
\* index brandId-name-index, or null
OfferFindByBrandIdAndName(brandId, name) ==
  \E id \in OfferKeys :
    offers[id].exists /\ offers[id].brandId = brandId /\ offers[id].name = name

\* OffersService.update up to the continuation of findOne
OfferUpdateBegin(c, id, dto) ==
  /\ CanStart(c)
  /\ LET call == [IdleCall EXCEPT !.op = "updateOffer", !.offerId = id, !.dto = dto]
         offer == offers[id]
     IN IF ~offer.exists
        THEN /\ calls' = [calls EXCEPT ![c] = Throw(call, "NotFound")]
             /\ UNCHANGED clock
        ELSE IF Truthy(dto.name) /\ dto.name # offer.name
        THEN /\ calls' = [calls EXCEPT ![c] =
                  [call EXCEPT !.pc = "probe", !.offer = offer]]
             /\ UNCHANGED clock
        ELSE /\ clock' = clock + 1
             /\ calls' = [calls EXCEPT ![c] =
                  [call EXCEPT !.pc = "put", !.offer = offer, !.now = clock + 1,
                               !.writes = @ + 1]]
  /\ UNCHANGED <<offers, locations, brands>>

\* OffersService.update: the continuation of the uniqueness probe
OfferUpdateProbe(c) ==
  /\ calls[c].op = "updateOffer" /\ calls[c].pc = "probe"
  /\ LET call == calls[c]
     IN IF OfferFindByBrandIdAndName(call.offer.brandId, call.dto.name)
        THEN /\ calls' = [calls EXCEPT ![c] = Throw(call, "Conflict")]
             /\ UNCHANGED clock
        ELSE /\ clock' = clock + 1
             /\ calls' = [calls EXCEPT ![c] =
                  [call EXCEPT !.pc = "put", !.now = clock + 1, !.writes = @ + 1]]
  /\ UNCHANGED <<offers, locations, brands>>

\* OffersRepository.update: put of the whole item
OfferUpdatePut(c) ==
  /\ calls[c].op = "updateOffer" /\ calls[c].pc = "put"
  /\ LET call == calls[c]
         updatedOffer == OfferUpdated(call.offer, call.dto, call.now)
     IN /\ offers' = [offers EXCEPT ![call.offerId] = updatedOffer]
        /\ calls' = [calls EXCEPT ![c] =
             [call EXCEPT !.pc = "done", !.outcome = "ok", !.result = updatedOffer]]
  /\ UNCHANGED <<locations, clock, brands>>

\* OffersService.remove up to the continuation of findOne
OfferRemoveBegin(c, id) ==
  /\ CanStart(c)
  /\ LET call == [IdleCall EXCEPT !.op = "removeOffer", !.offerId = id]
     IN calls' = [calls EXCEPT ![c] =
          IF ~offers[id].exists THEN Throw(call, "NotFound")
          ELSE [call EXCEPT !.pc = "delete", !.offer = offers[id], !.writes = @ + 1]]
  /\ UNCHANGED <<offers, locations, clock, brands>>

\* OffersRepository.delete
OfferRemoveDelete(c) ==
  /\ calls[c].op = "removeOffer" /\ calls[c].pc = "delete"
  /\ offers' = [offers EXCEPT ![calls[c].offerId] = NoOffer]
  /\ calls' = [calls EXCEPT ![c] = [@ EXCEPT !.pc = "done", !.outcome = "ok"]]
  /\ UNCHANGED <<locations, clock, brands>>

\* { ...location, ...updateLocationDto, ...(nameLower && { nameLower }),
\*   updatedAt: timestamp() }
LocationUpdated(location, dto, now) ==
  [location EXCEPT !.name = IF dto.name # NoValue THEN dto.name ELSE @,
                   !.nameLower = IF Truthy(dto.name)
                                 THEN toLowerCase(dto.name) ELSE @,
                   !.address = IF dto.address # NoValue THEN dto.address ELSE @,
                   !.updatedAt = now]

\* LocationsRepository.findByBrandIdAndNameLower: the first item of the query
\* on the index brandId-nameLower-index, or null
LocationFindByBrandIdAndNameLower(brandId, nameLower) ==
  \E id \in LocationKeys :
    /\ locations[id].exists
    /\ locations[id].brandId = brandId
    /\ locations[id].nameLower = nameLower

\* LocationsService.update up to the continuation of findOne
LocationUpdateBegin(c, id, dto) ==
  /\ CanStart(c)
  /\ LET call == [IdleCall EXCEPT !.op = "updateLocation", !.locationId = id,
                                  !.dto = dto]
         location == locations[id]
     IN IF ~location.exists
        THEN /\ calls' = [calls EXCEPT ![c] = Throw(call, "NotFound")]
             /\ UNCHANGED clock
        ELSE IF Truthy(dto.name) /\ toLowerCase(dto.name) # location.nameLower
        THEN /\ calls' = [calls EXCEPT ![c] =
                  [call EXCEPT !.pc = "probe", !.location = location]]
             /\ UNCHANGED clock
        ELSE /\ clock' = clock + 1
             /\ calls' = [calls EXCEPT ![c] =
                  [call EXCEPT !.pc = "put", !.location = location,
                               !.now = clock + 1, !.writes = @ + 1]]
  /\ UNCHANGED <<offers, locations, brands>>

\* LocationsService.update: the continuation of the uniqueness probe
LocationUpdateProbe(c) ==
  /\ calls[c].op = "updateLocation" /\ calls[c].pc = "probe"
  /\ LET call == calls[c]
     IN IF LocationFindByBrandIdAndNameLower(call.location.brandId,
                                             toLowerCase(call.dto.name))
        THEN /\ calls' = [calls EXCEPT ![c] = Throw(call, "Conflict")]
             /\ UNCHANGED clock
        ELSE /\ clock' = clock + 1
             /\ calls' = [calls EXCEPT ![c] =
                  [call EXCEPT !.pc = "put", !.now = clock + 1, !.writes = @ + 1]]
  /\ UNCHANGED <<offers, locations, brands>>

\* LocationsRepository.update: put of the whole item
LocationUpdatePut(c) ==
  /\ calls[c].op = "updateLocation" /\ calls[c].pc = "put"
  /\ LET call == calls[c]
     IN /\ locations' = [locations EXCEPT ![call.locationId] =
             LocationUpdated(call.location, call.dto, call.now)]
        /\ calls' = [calls EXCEPT ![c] =
             [call EXCEPT !.pc = "done", !.outcome = "ok"]]
  /\ UNCHANGED <<offers, clock, brands>>

\* LocationsService.remove without findOne
LocationRemoveBegin_NoFindOne(c, id) ==
  /\ CanStart(c)
  /\ calls' = [calls EXCEPT ![c] =
       [IdleCall EXCEPT !.op = "removeLocation", !.locationId = id,
                        !.pc = "delete", !.location = locations[id],
                        !.writes = @ + 1]]
  /\ UNCHANGED <<offers, locations, clock, brands>>

\* LocationsService.remove up to the continuation of findOne
LocationRemoveBegin(c, id) ==
  /\ CanStart(c)
  /\ LET call == [IdleCall EXCEPT !.op = "removeLocation", !.locationId = id]
     IN calls' = [calls EXCEPT ![c] =
          IF ~locations[id].exists THEN Throw(call, "NotFound")
          ELSE [call EXCEPT !.pc = "delete", !.location = locations[id],
                            !.writes = @ + 1]]
  /\ UNCHANGED <<offers, locations, clock, brands>>

\* LocationsRepository.delete
LocationRemoveDelete(c) ==
  /\ calls[c].op = "removeLocation" /\ calls[c].pc = "delete"
  /\ locations' = [locations EXCEPT ![calls[c].locationId] = NoLocation]
  /\ calls' = [calls EXCEPT ![c] = [@ EXCEPT !.pc = "done", !.outcome = "ok"]]
  /\ UNCHANGED <<offers, clock, brands>>

\* ------------------------------------------------------- BrandsService

\* A nameLower-index query that never returns an item
BrandFindByNameLower_Nothing(nameLower) == FALSE

\* BrandsRepository.findByNameLower: the first item of the query on the index
\* nameLower-index, or null
BrandFindByNameLower(nameLower) ==
  \E id \in BrandKeys : brands[id].exists /\ brands[id].nameLower = nameLower

\* { id: generateId(), ...createBrandDto, nameLower, createdAt: now, updatedAt: now }
BrandCreated(dto, now) ==
  [exists |-> TRUE, name |-> dto.name, nameLower |-> toLowerCase(dto.name),
   description |-> dto.description, createdAt |-> now, updatedAt |-> now]

\* BrandsService.create up to the continuation of the uniqueness probe
BrandCreateBegin(c, dto) ==
  /\ CanStart(c)
  /\ LET call == [IdleCall EXCEPT !.op = "createBrand", !.dto = dto]
     IN IF BrandFindByNameLower(toLowerCase(dto.name))
        THEN /\ calls' = [calls EXCEPT ![c] = Throw(call, "Conflict")]
             /\ UNCHANGED clock
        ELSE /\ clock' = clock + 1
             /\ calls' = [calls EXCEPT ![c] =
                  [call EXCEPT !.pc = "put", !.brandId = generateId(c),
                               !.now = clock + 1, !.writes = @ + 1]]
  /\ UNCHANGED <<offers, locations, brands>>

\* BrandsRepository.create: put of the item
BrandCreatePut(c) ==
  /\ calls[c].op = "createBrand" /\ calls[c].pc = "put"
  /\ brands' = [brands EXCEPT ![calls[c].brandId] =
                  BrandCreated(calls[c].dto, calls[c].now)]
  /\ calls' = [calls EXCEPT ![c] = [@ EXCEPT !.pc = "done", !.outcome = "ok"]]
  /\ UNCHANGED <<offers, locations, clock>>

\* BrandsService.findOne (GET /brands/:id)
BrandFindOne(c, id) ==
  /\ CanStart(c)
  /\ LET call == [IdleCall EXCEPT !.op = "findBrand", !.brandId = id]
     IN calls' = [calls EXCEPT ![c] =
          IF ~brands[id].exists THEN Throw(call, "NotFound")
          ELSE [call EXCEPT !.pc = "done", !.outcome = "ok", !.brand = brands[id]]]
  /\ UNCHANGED <<offers, locations, clock, brands>>

\* { ...brand, ...updateBrandDto, ...(nameLower && { nameLower }),
\*   updatedAt: timestamp() }
BrandUpdated(brand, dto, now) ==
  [brand EXCEPT !.name = IF dto.name # NoValue THEN dto.name ELSE @,
                !.nameLower = IF Truthy(dto.name)
                              THEN toLowerCase(dto.name) ELSE @,
                !.description = IF dto.description # NoValue
                                THEN dto.description ELSE @,
                !.updatedAt = now]

\* BrandsService.update that probes whenever a name is supplied
BrandUpdateBegin_AlwaysProbe(c, id, dto) ==
  /\ CanStart(c)
  /\ LET call == [IdleCall EXCEPT !.op = "updateBrand", !.brandId = id, !.dto = dto]
         brand == brands[id]
     IN IF ~brand.exists
        THEN /\ calls' = [calls EXCEPT ![c] = Throw(call, "NotFound")]
             /\ UNCHANGED clock
        ELSE IF Truthy(dto.name)
        THEN /\ calls' = [calls EXCEPT ![c] =
                  [call EXCEPT !.pc = "probe", !.brand = brand]]
             /\ UNCHANGED clock
        ELSE /\ clock' = clock + 1
             /\ calls' = [calls EXCEPT ![c] =
                  [call EXCEPT !.pc = "put", !.brand = brand, !.now = clock + 1,
                               !.writes = @ + 1]]
  /\ UNCHANGED <<offers, locations, brands>>

\* BrandsService.update up to the continuation of findOne
BrandUpdateBegin(c, id, dto) ==
  /\ CanStart(c)
  /\ LET call == [IdleCall EXCEPT !.op = "updateBrand", !.brandId = id, !.dto = dto]
         brand == brands[id]
     IN IF ~brand.exists
        THEN /\ calls' = [calls EXCEPT ![c] = Throw(call, "NotFound")]
             /\ UNCHANGED clock
        ELSE IF Truthy(dto.name) /\ toLowerCase(dto.name) # brand.nameLower
        THEN /\ calls' = [calls EXCEPT ![c] =
                  [call EXCEPT !.pc = "probe", !.brand = brand]]
             /\ UNCHANGED clock
        ELSE /\ clock' = clock + 1
             /\ calls' = [calls EXCEPT ![c] =
                  [call EXCEPT !.pc = "put", !.brand = brand, !.now = clock + 1,
                               !.writes = @ + 1]]
  /\ UNCHANGED <<offers, locations, brands>>

\* BrandsService.update: the continuation of the uniqueness probe
BrandUpdateProbe(c) ==
  /\ calls[c].op = "updateBrand" /\ calls[c].pc = "probe"
  /\ LET call == calls[c]
     IN IF BrandFindByNameLower(toLowerCase(call.dto.name))
        THEN /\ calls' = [calls EXCEPT ![c] = Throw(call, "Conflict")]
             /\ UNCHANGED clock
        ELSE /\ clock' = clock + 1
             /\ calls' = [calls EXCEPT ![c] =
                  [call EXCEPT !.pc = "put", !.now = clock + 1, !.writes = @ + 1]]
  /\ UNCHANGED <<offers, locations, brands>>

\* BrandsRepository.update: put of the whole item
BrandUpdatePut(c) ==
  /\ calls[c].op = "updateBrand" /\ calls[c].pc = "put"
  /\ brands' = [brands EXCEPT ![calls[c].brandId] =
                  BrandUpdated(calls[c].brand, calls[c].dto, calls[c].now)]
  /\ calls' = [calls EXCEPT ![c] = [@ EXCEPT !.pc = "done", !.outcome = "ok"]]
  /\ UNCHANGED <<offers, locations, clock>>

\* BrandsService.remove up to the continuation of findOne
BrandRemoveBegin(c, id) ==
  /\ CanStart(c)
  /\ LET call == [IdleCall EXCEPT !.op = "removeBrand", !.brandId = id]
     IN calls' = [calls EXCEPT ![c] =
          IF ~brands[id].exists THEN Throw(call, "NotFound")
          ELSE [call EXCEPT !.pc = "delete", !.brand = brands[id],
                            !.writes = @ + 1]]
  /\ UNCHANGED <<offers, locations, clock, brands>>

\* BrandsRepository.delete
BrandRemoveDelete(c) ==
  /\ calls[c].op = "removeBrand" /\ calls[c].pc = "delete"
  /\ brands' = [brands EXCEPT ![calls[c].brandId] = NoBrand]
  /\ calls' = [calls EXCEPT ![c] = [@ EXCEPT !.pc = "done", !.outcome = "ok"]]
  /\ UNCHANGED <<offers, locations, clock>>

\* ------------------------------------------- create and findOne handlers

\* { id: generateId(), ...createLocationDto, nameLower, hasOffer: false,
\*   createdAt: now, updatedAt: now }
LocationCreated(brandId, dto, now) ==
  [exists |-> TRUE, brandId |-> brandId, name |-> dto.name,
   nameLower |-> toLowerCase(dto.name), address |-> dto.address,
   offerIds |-> {}, hasOffer |-> FALSE, createdAt |-> now, updatedAt |-> now]

\* LocationsService.create up to the continuation of brandsService.findOne
LocationCreateBegin(c, brandId, dto) ==
  /\ CanStart(c)
  /\ LET call == [IdleCall EXCEPT !.op = "createLocation", !.brandId = brandId,
                                  !.dto = dto]
     IN calls' = [calls EXCEPT ![c] =
          IF ~brands[brandId].exists THEN Throw(call, "NotFound")
          ELSE [call EXCEPT !.pc = "probe", !.brand = brands[brandId]]]
  /\ UNCHANGED <<offers, locations, clock, brands>>

\* LocationsService.create: the continuation of the uniqueness probe
LocationCreateProbe(c) ==
  /\ calls[c].op = "createLocation" /\ calls[c].pc = "probe"
  /\ LET call == calls[c]
     IN IF LocationFindByBrandIdAndNameLower(call.brandId,
                                             toLowerCase(call.dto.name))
        THEN /\ calls' = [calls EXCEPT ![c] = Throw(call, "Conflict")]
             /\ UNCHANGED clock
        ELSE /\ clock' = clock + 1
             /\ calls' = [calls EXCEPT ![c] =
                  [call EXCEPT !.pc = "put", !.locationId = generateId(c),
                               !.now = clock + 1, !.writes = @ + 1]]
  /\ UNCHANGED <<offers, locations, brands>>

\* LocationsRepository.create: put of the item
LocationCreatePut(c) ==
  /\ calls[c].op = "createLocation" /\ calls[c].pc = "put"
  /\ locations' = [locations EXCEPT ![calls[c].locationId] =
                     LocationCreated(calls[c].brandId, calls[c].dto, calls[c].now)]
  /\ calls' = [calls EXCEPT ![c] = [@ EXCEPT !.pc = "done", !.outcome = "ok"]]
  /\ UNCHANGED <<offers, clock, brands>>

\* LocationsService.findOne (GET /locations/:id)
LocationFindOne(c, id) ==
  /\ CanStart(c)
  /\ LET call == [IdleCall EXCEPT !.op = "findLocation", !.locationId = id]
     IN calls' = [calls EXCEPT ![c] =
          IF ~locations[id].exists THEN Throw(call, "NotFound")
          ELSE [call EXCEPT !.pc = "done", !.outcome = "ok",
                            !.location = locations[id]]]
  /\ UNCHANGED <<offers, locations, clock, brands>>

\* A new offer that counts one location
OfferCreated_OneLocation(brandId, dto, now) ==
  [exists |-> TRUE, brandId |-> brandId, name |-> dto.name,
   description |-> dto.description, locationIds |-> {}, locationsTotal |-> 1,
   createdAt |-> now, updatedAt |-> now]

\* { id: generateId(), ...createOfferDto, locationsTotal: 0, createdAt: now,
\*   updatedAt: now }
OfferCreated(brandId, dto, now) ==
  [exists |-> TRUE, brandId |-> brandId, name |-> dto.name,
   description |-> dto.description, locationIds |-> {}, locationsTotal |-> 0,
   createdAt |-> now, updatedAt |-> now]

\* OffersService.create without the lookup of the brand
OfferCreateBegin_NoBrandCheck(c, brandId, dto) ==
  /\ CanStart(c)
  /\ calls' = [calls EXCEPT ![c] =
       [IdleCall EXCEPT !.op = "createOffer", !.brandId = brandId, !.dto = dto,
                        !.pc = "probe", !.brand = brands[brandId]]]
  /\ UNCHANGED <<offers, locations, clock, brands>>

\* OffersService.create up to the continuation of brandsService.findOne
OfferCreateBegin(c, brandId, dto) ==
  /\ CanStart(c)
  /\ LET call == [IdleCall EXCEPT !.op = "createOffer", !.brandId = brandId,
                                  !.dto = dto]
     IN calls' = [calls EXCEPT ![c] =
          IF ~brands[brandId].exists THEN Throw(call, "NotFound")
          ELSE [call EXCEPT !.pc = "probe", !.brand = brands[brandId]]]
  /\ UNCHANGED <<offers, locations, clock, brands>>

\* OffersService.create: the continuation of the uniqueness probe
OfferCreateProbe(c) ==
  /\ calls[c].op = "createOffer" /\ calls[c].pc = "probe"
  /\ LET call == calls[c]
     IN IF OfferFindByBrandIdAndName(call.brandId, call.dto.name)
        THEN /\ calls' = [calls EXCEPT ![c] = Throw(call, "Conflict")]
             /\ UNCHANGED clock
        ELSE /\ clock' = clock + 1
             /\ calls' = [calls EXCEPT ![c] =
                  [call EXCEPT !.pc = "put", !.offerId = generateId(c),
                               !.now = clock + 1, !.writes = @ + 1]]
  /\ UNCHANGED <<offers, locations, brands>>

\* OffersRepository.create: put of the item
OfferCreatePut(c) ==
  /\ calls[c].op = "createOffer" /\ calls[c].pc = "put"
  /\ LET offer == OfferCreated(calls[c].brandId, calls[c].dto, calls[c].now)
     IN /\ offers' = [offers EXCEPT ![calls[c].offerId] = offer]
        /\ calls' = [calls EXCEPT ![c] =
             [@ EXCEPT !.pc = "done", !.outcome = "ok", !.result = offer]]
  /\ UNCHANGED <<locations, clock, brands>>

\* OffersService.findOne (GET /offers/:id)
OfferFindOne(c, id) ==
  /\ CanStart(c)
  /\ LET call == [IdleCall EXCEPT !.op = "findOffer", !.offerId = id]
     IN calls' = [calls EXCEPT ![c] =
          IF ~offers[id].exists THEN Throw(call, "NotFound")
          ELSE [call EXCEPT !.pc = "done", !.outcome = "ok", !.result = offers[id]]]
  /\ UNCHANGED <<offers, locations, clock, brands>>

\* ----------------------------------------------------------- initial states

\* The tables after some creates and links: o1, l1, l2 belong to brand b1,
\* o2 to either brand, and any set of same-brand pairs with l1 is linked.
InitOffer(id, brandId, name, locationIds) ==
  [exists |-> TRUE, brandId |-> brandId, name |-> name, description |-> "d1",
   locationIds |-> locationIds, locationsTotal |-> Cardinality(locationIds),
   createdAt |-> 0, updatedAt |-> 0]

InitLocation(id, brandId, name, nameLower, offerIds) ==
  [exists |-> TRUE, brandId |-> brandId, name |-> name, nameLower |-> nameLower,
   address |-> "d1", offerIds |-> offerIds, hasOffer |-> offerIds # {},
   createdAt |-> 0, updatedAt |-> 0]

InitBrand(id, name, nameLower) ==
  [exists |-> TRUE, name |-> name, nameLower |-> nameLower,
   description |-> "d1", createdAt |-> 0, updatedAt |-> 0]

Init ==
  /\ \E b2 \in BrandIds :
     \E links \in SUBSET ({"o1", "o2"} \X {"l1"}) :
       /\ b2 # "b1" => \A p \in links : p[1] # "o2"
       /\ offers =
            [id \in OfferKeys |->
               IF id = "o1" THEN
                 InitOffer(id, "b1", "a", {l \in LocationIds : <<id, l>> \in links})
               ELSE IF id = "o2" THEN
                 InitOffer(id, b2, "b", {l \in LocationIds : <<id, l>> \in links})
               ELSE NoOffer]
       /\ locations =
            [id \in LocationKeys |->
               IF id = "l1" THEN
                 InitLocation(id, "b1", "A", "a", {o \in OfferIds : <<o, id>> \in links})
               ELSE IF id = "l2" THEN
                 InitLocation(id, "b1", "b", "b", {o \in OfferIds : <<o, id>> \in links})
               ELSE NoLocation]
  /\ clock = 0
  /\ calls = [c \in Calls |-> IdleCall]
  /\ brands =
       [id \in BrandKeys |->
          IF id = "b1" THEN InitBrand(id, "A", "a")
          ELSE IF id = "b2" THEN InitBrand(id, "B", "b")
          ELSE NoBrand]

\* ------------------------------------------------------------ specifications

\* link and unlink calls only
NextLink ==
  \/ \E c \in Calls, o \in OfferIds, l \in LocationIds : LinkBegin(c, o, l)
  \/ \E c \in Calls : LinkReadLocation(c)
  \/ \E c \in Calls : LinkWrite(c)
  \/ \E c \in Calls, o \in OfferIds, l \in LocationIds : UnlinkBegin(c, o, l)
  \/ \E c \in Calls : UnlinkReadLocation(c)
  \/ \E c \in Calls : UnlinkWrite(c)
  \/ \E c \in Calls : TransactionConflict(c)
  \/ \E c \in Calls : TransactWriteFails(c)

SpecLink == Init /\ [][NextLink]_vars

\* link and unlink calls together with removes of offers and locations
NextRemove ==
  \/ NextLink
  \/ \E c \in Calls, o \in OfferIds : OfferRemoveBegin(c, o)
  \/ \E c \in Calls : OfferRemoveDelete(c)
  \/ \E c \in Calls, l \in LocationIds : LocationRemoveBegin(c, l)
  \/ \E c \in Calls : LocationRemoveDelete(c)

SpecRemove == Init /\ [][NextRemove]_vars

\* link, unlink and remove calls together with updates of offers and locations
Next ==
  \/ NextRemove
  \/ \E c \in Calls, o \in OfferIds, dto \in UpdateOfferDtos :
       OfferUpdateBegin(c, o, dto)
  \/ \E c \in Calls : OfferUpdateProbe(c)
  \/ \E c \in Calls : OfferUpdatePut(c)
  \/ \E c \in Calls, l \in LocationIds, dto \in UpdateLocationDtos :
       LocationUpdateBegin(c, l, dto)
  \/ \E c \in Calls : LocationUpdateProbe(c)
  \/ \E c \in Calls : LocationUpdatePut(c)

Spec == Init /\ [][Next]_vars

\* link and unlink calls of a client that awaits the outcome of each call
\* before it issues the next one
NoCallInFlight == \A d \in Calls : calls[d].pc \in {"idle", "done"}

NextSequential ==
  \/ \E c \in Calls, o \in OfferIds, l \in LocationIds :
       NoCallInFlight /\ LinkBegin(c, o, l)
  \/ \E c \in Calls : LinkReadLocation(c)
  \/ \E c \in Calls : LinkWrite(c)
  \/ \E c \in Calls, o \in OfferIds, l \in LocationIds :
       NoCallInFlight /\ UnlinkBegin(c, o, l)
  \/ \E c \in Calls : UnlinkReadLocation(c)
  \/ \E c \in Calls : UnlinkWrite(c)
  \/ \E c \in Calls : TransactWriteFails(c)

SpecSequential == Init /\ [][NextSequential]_vars

\* The outcomes of all calls have been delivered: the invocations are over and
\* further requests arrive as new calls.
Respond ==
  /\ \A c \in Calls : calls[c].pc = "done"
  /\ clock <= MaxClock
  /\ calls' = [c \in Calls |-> IdleCall]
  /\ UNCHANGED <<offers, locations, clock, brands>>

\* link and unlink calls, MaxCalls at a time, one group after another
NextRepeat ==
  \/ NextLink
  \/ Respond

SpecRepeat == Init /\ [][NextRepeat]_vars

\* The store answers every access of call c: the read of the location and the
\* transaction (with whichever answer).
StoreAnswers(c) ==
  \/ LinkReadLocation(c)
  \/ UnlinkReadLocation(c)
  \/ LinkWrite(c)
  \/ UnlinkWrite(c)

\* The tables with o1 linked to l1 and o2 an offer of another brand
InitFair ==
  /\ Init
  /\ offers["o1"].locationIds = {"l1"}
  /\ offers["o2"].brandId = "b2"

\* link and unlink calls with a store that eventually answers each access
SpecLinkFair ==
  InitFair /\ [][NextLink]_vars /\ \A c \in Calls : WF_vars(StoreAnswers(c))

\* The tables before any link: no pair is linked
InitRegistry ==
  /\ Init
  /\ \A o \in OfferKeys : offers[o].locationIds = {}

\* create calls of brands, locations and offers, and removes of brands
NextCreate ==
  \/ \E c \in Calls, dto \in CreateBrandDtos : BrandCreateBegin(c, dto)
  \/ \E c \in Calls : BrandCreatePut(c)
  \/ \E c \in Calls, b \in BrandIds \cup {"b0"} : BrandRemoveBegin(c, b)
  \/ \E c \in Calls : BrandRemoveDelete(c)
  \/ \E c \in Calls, b \in BrandIds \cup {"b0"}, dto \in CreateLocationDtos :
       LocationCreateBegin(c, b, dto)
  \/ \E c \in Calls : LocationCreateProbe(c)
  \/ \E c \in Calls : LocationCreatePut(c)
  \/ \E c \in Calls, b \in BrandIds \cup {"b0"}, dto \in CreateOfferDtos :
       OfferCreateBegin(c, b, dto)
  \/ \E c \in Calls : OfferCreateProbe(c)
  \/ \E c \in Calls : OfferCreatePut(c)

SpecCreate == InitRegistry /\ [][NextCreate]_vars

\* create and update calls of the three registries: creates in brand b1,
\* updates of b1, l1 and o1
NextRegistry ==
  \/ \E c \in Calls, dto \in CreateBrandDtos :
       dto.name # "c" /\ BrandCreateBegin(c, dto)
  \/ \E c \in Calls : BrandCreatePut(c)
  \/ \E c \in Calls, dto \in UpdateBrandDtos \cup RenameDtos :
       BrandUpdateBegin(c, "b1", dto)
  \/ \E c \in Calls : BrandUpdateProbe(c)
  \/ \E c \in Calls : BrandUpdatePut(c)
  \/ \E c \in Calls, dto \in CreateLocationDtos :
       dto.name # "c" /\ LocationCreateBegin(c, "b1", dto)
  \/ \E c \in Calls : LocationCreateProbe(c)
  \/ \E c \in Calls : LocationCreatePut(c)
  \/ \E c \in Calls, dto \in UpdateLocationDtos \cup RenameDtos :
       LocationUpdateBegin(c, "l1", dto)
  \/ \E c \in Calls : LocationUpdateProbe(c)
  \/ \E c \in Calls : LocationUpdatePut(c)
  \/ \E c \in Calls, dto \in CreateOfferDtos :
       OfferCreateBegin(c, "b1", dto)
  \/ \E c \in Calls : OfferCreateProbe(c)
  \/ \E c \in Calls : OfferCreatePut(c)
  \/ \E c \in Calls, dto \in UpdateOfferDtos \cup RenameDtos :
       OfferUpdateBegin(c, "o1", dto)
  \/ \E c \in Calls : OfferUpdateProbe(c)
  \/ \E c \in Calls : OfferUpdatePut(c)

SpecRegistry == InitRegistry /\ [][NextRegistry]_vars

\* findOne, update and remove calls of b1, l1 and o1 and of the ids that were
\* never created
NextLookup ==
  \/ \E c \in Calls, b \in {"b1", "b0"} : BrandFindOne(c, b)
  \/ \E c \in Calls, b \in {"b1", "b0"}, dto \in UpdateBrandDtos :
       BrandUpdateBegin(c, b, dto)
  \/ \E c \in Calls : BrandUpdateProbe(c)
  \/ \E c \in Calls : BrandUpdatePut(c)
  \/ \E c \in Calls, b \in {"b1", "b0"} : BrandRemoveBegin(c, b)
  \/ \E c \in Calls : BrandRemoveDelete(c)
  \/ \E c \in Calls, l \in {"l1", "l0"} : LocationFindOne(c, l)
  \/ \E c \in Calls, l \in {"l1", "l0"}, dto \in UpdateLocationDtos :
       LocationUpdateBegin(c, l, dto)
  \/ \E c \in Calls : LocationUpdateProbe(c)
  \/ \E c \in Calls : LocationUpdatePut(c)
  \/ \E c \in Calls, l \in {"l1", "l0"} : LocationRemoveBegin(c, l)
  \/ \E c \in Calls : LocationRemoveDelete(c)
  \/ \E c \in Calls, o \in {"o1", "o0"} : OfferFindOne(c, o)
  \/ \E c \in Calls, o \in {"o1", "o0"}, dto \in UpdateOfferDtos :
       OfferUpdateBegin(c, o, dto)
  \/ \E c \in Calls : OfferUpdateProbe(c)
  \/ \E c \in Calls : OfferUpdatePut(c)
  \/ \E c \in Calls, o \in {"o1", "o0"} : OfferRemoveBegin(c, o)
  \/ \E c \in Calls : OfferRemoveDelete(c)

SpecLookup == InitRegistry /\ [][NextLookup]_vars

\* ------------------------------------------------------------------ claims

IsLinkOp(c) == calls[c].op \in {"link", "unlink"}

\* Call c has just received the store's answer to its transactWrite.
WriteAnswered(c) == IsLinkOp(c) /\ calls[c].pc = "write" /\ calls'[c].pc = "done"

\* The pair is linked in the store, on both records.
Linked(o, l) == l \in offers[o].locationIds /\ o \in locations[l].offerIds

\* No call other than p and q has touched offer o or location l.
Undisturbed(p, q, o, l) ==
  \A r \in Calls \ {p, q} :
    calls[r].pc = "idle" \/ (calls[r].offerId # o /\ calls[r].locationId # l)

\* C1: after any interleaving of linkToLocation and unlinkFromLocation calls,
\* every stored offer has locationsTotal = |locationIds|.
C1_LocationsTotalIsCardinality ==
  \A o \in OfferIds :
    offers[o].exists =>
      offers[o].locationsTotal = Cardinality(offers[o].locationIds)

C1_Witness ==
  \E c, d \in Calls :
    /\ calls[c].op = "link" /\ calls[c].outcome = "ok"
    /\ calls[d].op = "unlink" /\ calls[d].outcome = "ok"
    /\ calls[c].offerId = calls[d].offerId
    /\ offers[calls[c].offerId].locationsTotal = 1

\* C2: for every stored location, hasOffer is true iff offerIds is non-empty,
\* also when an unlink runs concurrently with a link or unlink of another
\* offer on the same location.
C2_HasOfferIffOfferIds ==
  \A l \in LocationIds :
    locations[l].exists => (locations[l].hasOffer <=> locations[l].offerIds # {})

\* C3: under any interleaving of linkToLocation and unlinkFromLocation calls,
\* O.id is in L.offerIds iff L.id is in O.locationIds.
C3_BothSidesAgree ==
  \A o \in OfferIds, l \in LocationIds :
    (offers[o].exists /\ l \in offers[o].locationIds)
      <=> (locations[l].exists /\ o \in locations[l].offerIds)

C3_Witness ==
  \E c, d \in Calls :
    /\ calls[c].op = "link" /\ calls[c].outcome = "ok"
    /\ calls[d].op = "unlink" /\ calls[d].outcome = "ok"
    /\ Linked(calls[c].offerId, calls[c].locationId)
    /\ ~Linked(calls[d].offerId, calls[d].locationId)

\* C4: two linkToLocation calls for the same pair, at least one of which passed
\* the read-time checks, with a store that answers both and no other call on
\* the two records: exactly one returns the offer, the other fails with
\* Conflict, the pair is linked and locationsTotal is one more than the winner
\* read.
C4_ConcurrentLinkOnce ==
  \A p, q \in Calls :
    ( /\ p # q
      /\ calls[p].op = "link" /\ calls[q].op = "link"
      /\ calls[p].pc = "done" /\ calls[q].pc = "done"
      /\ calls[p].offerId = calls[q].offerId
      /\ calls[p].locationId = calls[q].locationId
      /\ calls[p].writes > 0
      /\ calls[p].error.name # "ServiceUnavailable"
      /\ calls[q].error.name # "ServiceUnavailable"
      /\ Undisturbed(p, q, calls[p].offerId, calls[p].locationId) )
    => /\ \/ calls[p].outcome = "ok" /\ calls[q].outcome = "Conflict"
          \/ calls[p].outcome = "Conflict" /\ calls[q].outcome = "ok"
       /\ Linked(calls[p].offerId, calls[p].locationId)
       /\ \A w \in {p, q} :
            calls[w].outcome = "ok" =>
              offers[calls[p].offerId].locationsTotal
                = calls[w].offer.locationsTotal + 1

\* both calls passed the read-time checks and the loser was rejected by the
\* write-time condition
C4_Witness ==
  \E p, q \in Calls :
    /\ p # q
    /\ calls[p].op = "link" /\ calls[q].op = "link"
    /\ calls[p].offerId = calls[q].offerId
    /\ calls[p].locationId = calls[q].locationId
    /\ calls[p].outcome = "ok"
    /\ calls[q].outcome = "Conflict"
    /\ calls[q].error.reasons = <<"ConditionalCheckFailed", "ConditionalCheckFailed">>

\* C5: two unlinkFromLocation calls for the same linked pair (same setting as
\* C4): exactly one returns the offer, the other fails with NotFound, the
\* pair is unlinked, locationsTotal is one less than the winner read, and no
\* call issued more than one write.
C5_ConcurrentUnlinkOnce ==
  \A p, q \in Calls :
    ( /\ p # q
      /\ calls[p].op = "unlink" /\ calls[q].op = "unlink"
      /\ calls[p].pc = "done" /\ calls[q].pc = "done"
      /\ calls[p].offerId = calls[q].offerId
      /\ calls[p].locationId = calls[q].locationId
      /\ calls[p].writes > 0
      /\ calls[p].error.name # "ServiceUnavailable"
      /\ calls[q].error.name # "ServiceUnavailable"
      /\ Undisturbed(p, q, calls[p].offerId, calls[p].locationId) )
    => /\ \/ calls[p].outcome = "ok" /\ calls[q].outcome = "NotFound"
          \/ calls[p].outcome = "NotFound" /\ calls[q].outcome = "ok"
       /\ ~(calls[p].locationId \in offers[calls[p].offerId].locationIds)
       /\ ~(calls[p].offerId \in locations[calls[p].locationId].offerIds)
       /\ calls[p].writes <= 1 /\ calls[q].writes <= 1
       /\ \A w \in {p, q} :
            calls[w].outcome = "ok" =>
              offers[calls[p].offerId].locationsTotal
                = calls[w].offer.locationsTotal - 1

C5_Witness ==
  \E p, q \in Calls :
    /\ p # q
    /\ calls[p].op = "unlink" /\ calls[q].op = "unlink"
    /\ calls[p].offerId = calls[q].offerId
    /\ calls[p].locationId = calls[q].locationId
    /\ calls[p].outcome = "ok"
    /\ calls[q].outcome = "NotFound"
    /\ calls[q].writes = 1
    /\ calls[q].error.reasons = <<"ConditionalCheckFailed", "ConditionalCheckFailed">>

\* C6: a transaction the store cancelled is reported by direction, whichever
\* item's condition failed: linkToLocation reports Conflict, unlinkFromLocation
\* NotFound, never the store's own error.
C6_CancelTranslatedByDirection ==
  \A c \in Calls :
    calls[c].error.name = "TransactionCanceledException" =>
      /\ calls[c].pc = "done"
      /\ calls[c].op = "link" => calls[c].outcome = "Conflict"
      /\ calls[c].op = "unlink" => calls[c].outcome = "NotFound"

\* one cancelled link and one unlink of which only the location's condition
\* failed
C6_Witness ==
  \E c, d \in Calls :
    /\ calls[c].op = "unlink"
    /\ calls[c].error.reasons = <<"ConditionalCheckFailed", "None">>
    /\ calls[c].outcome = "NotFound"
    /\ calls[d].op = "removeLocation"

\* C7: when linkToLocation fails with Conflict on the store's answer to the
\* atomic write, the pair is linked in the store at that moment.
C7_ConflictMeansLinked ==
  [][ \A c \in Calls :
        (WriteAnswered(c) /\ calls[c].op = "link" /\ calls'[c].outcome = "Conflict")
          => Linked(calls[c].offerId, calls[c].locationId) ]_vars

\* C8: the store's answer to the atomic write either commits both mutations
\* and the call returns the offer, or the call fails and no field of any
\* record changes.
C8_BothOrNeither ==
  [][ \A c \in Calls :
        WriteAnswered(c) =>
          IF calls'[c].outcome = "ok"
          THEN /\ offers'[calls[c].offerId] # offers[calls[c].offerId]
               /\ locations'[calls[c].locationId] # locations[calls[c].locationId]
          ELSE offers' = offers /\ locations' = locations ]_vars

\* a link or unlink whose transaction was cancelled with one item's condition
\* satisfied and the other's not
C8_Witness ==
  \E c \in Calls :
    /\ IsLinkOp(c)
    /\ calls[c].outcome \in {"Conflict", "NotFound"}
    /\ calls[c].error.reasons \in {<<"ConditionalCheckFailed", "None">>,
                                   <<"None", "ValidationError">>}

\* C9: a linkToLocation whose offer or location does not exist when the store
\* decides the atomic write fails with NotFound, and no record is created or
\* modified.
C9_LinkOfMissingRecordNotFound ==
  [][ \A c \in Calls :
        ( /\ WriteAnswered(c) /\ calls[c].op = "link"
          /\ calls'[c].error.name # "ServiceUnavailable"
          /\ \/ ~offers[calls[c].offerId].exists
             \/ ~locations[calls[c].locationId].exists )
        => /\ calls'[c].outcome = "NotFound"
           /\ offers' = offers /\ locations' = locations ]_vars

\* C10: the write of an offer update or location update leaves locationIds,
\* locationsTotal, offerIds and hasOffer of the stored record (when the record
\* is still stored) as they were just before the write.
C10_UpdateKeepsLinkFields ==
  [][ \A c \in Calls :
        (calls[c].pc = "put" /\ calls'[c].pc = "done") =>
          /\ (calls[c].op = "updateOffer" /\ offers[calls[c].offerId].exists) =>
               /\ offers'[calls[c].offerId].locationIds
                    = offers[calls[c].offerId].locationIds
               /\ offers'[calls[c].offerId].locationsTotal
                    = offers[calls[c].offerId].locationsTotal
          /\ (calls[c].op = "updateLocation"
                /\ locations[calls[c].locationId].exists) =>
               /\ locations'[calls[c].locationId].offerIds
                    = locations[calls[c].locationId].offerIds
               /\ locations'[calls[c].locationId].hasOffer
                    = locations[calls[c].locationId].hasOffer ]_vars

\* Call c has just received the location it asked locationsService.findOne for.
LocationAnswered(c) ==
  IsLinkOp(c) /\ calls[c].pc = "readLocation" /\ calls'[c].pc # "readLocation"

\* C11: unlinkFromLocation of an existing offer and an existing location of the
\* same brand whose offerIds does not hold the offer fails with NotFound
\* without issuing a store write, and both records stay as they were
\* (updatedAt included).
C11_UnlinkOfUnlinkedPair ==
  [][ \A c \in Calls :
        ( /\ LocationAnswered(c) /\ calls[c].op = "unlink"
          /\ locations[calls[c].locationId].exists
          /\ locations[calls[c].locationId].brandId = calls[c].offer.brandId
          /\ ~(calls[c].offerId \in locations[calls[c].locationId].offerIds) )
        => /\ calls'[c].pc = "done" /\ calls'[c].outcome = "NotFound"
           /\ calls'[c].writes = 0
           /\ offers' = offers /\ locations' = locations ]_vars

C11_Witness ==
  \E c \in Calls :
    /\ calls[c].op = "unlink" /\ calls[c].outcome = "NotFound"
    /\ calls[c].writes = 0
    /\ offers[calls[c].offerId].exists /\ locations[calls[c].locationId].exists
    /\ offers[calls[c].offerId].brandId = locations[calls[c].locationId].brandId
    /\ ~Linked(calls[c].offerId, calls[c].locationId)
    /\ offers[calls[c].offerId].updatedAt = 0
    /\ locations[calls[c].locationId].updatedAt = 0

\* C12: linkToLocation of an offer and a location of different brands fails
\* with Conflict without issuing a store write, and both records stay as they
\* were.
C12_LinkAcrossBrands ==
  [][ \A c \in Calls :
        ( /\ LocationAnswered(c) /\ calls[c].op = "link"
          /\ locations[calls[c].locationId].exists
          /\ locations[calls[c].locationId].brandId # calls[c].offer.brandId )
        => /\ calls'[c].pc = "done" /\ calls'[c].outcome = "Conflict"
           /\ calls'[c].writes = 0
           /\ offers' = offers /\ locations' = locations ]_vars

C12_Witness ==
  \E c \in Calls :
    /\ calls[c].op = "link" /\ calls[c].outcome = "Conflict"
    /\ calls[c].writes = 0
    /\ offers[calls[c].offerId].exists /\ locations[calls[c].locationId].exists
    /\ offers[calls[c].offerId].brandId # locations[calls[c].locationId].brandId
    /\ offers[calls[c].offerId].locationIds = {}
    /\ offers[calls[c].offerId].updatedAt = 0
    /\ locations[calls[c].locationId].updatedAt = 0

\* C13: two linkToLocation calls for the same existing, same-brand, unlinked
\* pair, the second issued after the first has returned and the store
\* answering: the first returns the offer, the second fails with Conflict, and
\* the stored locationsTotal after the second call (and before any later one)
\* is what it was after the first: one more than before (1 for an offer with
\* no links).
C13_SecondLinkConflicts ==
  \A p, q \in Calls :
    ( /\ q = p + 1
      /\ \A r \in Calls : r > q => calls[r].pc = "idle"
      /\ calls[p].op = "link" /\ calls[q].op = "link"
      /\ calls[p].pc = "done" /\ calls[q].pc = "done"
      /\ calls[p].offerId = calls[q].offerId
      /\ calls[p].locationId = calls[q].locationId
      /\ calls[p].offer.exists
      /\ locations[calls[p].locationId].exists
      /\ locations[calls[p].locationId].brandId = calls[p].offer.brandId
      /\ ~(calls[p].locationId \in calls[p].offer.locationIds)
      /\ calls[p].error.name # "ServiceUnavailable" )
    => /\ calls[p].outcome = "ok"
       /\ calls[q].outcome = "Conflict"
       /\ offers[calls[p].offerId].locationsTotal = calls[p].result.locationsTotal
       /\ offers[calls[p].offerId].locationsTotal
            = calls[p].offer.locationsTotal + 1
       /\ calls[p].offer.locationIds = {} =>
            offers[calls[p].offerId].locationsTotal = 1

C13_Witness ==
  \E p, q \in Calls :
    /\ q = p + 1
    /\ calls[p].op = "link" /\ calls[q].op = "link"
    /\ calls[p].offerId = calls[q].offerId
    /\ calls[p].locationId = calls[q].locationId
    /\ calls[p].offer.locationIds = {}
    /\ calls[p].outcome = "ok"
    /\ calls[q].outcome = "Conflict"
    /\ offers[calls[p].offerId].locationsTotal = 1

\* C14: a linkToLocation of an existing, same-brand, unlinked pair that returns
\* the offer, followed (nothing in between) by an unlinkFromLocation of the
\* pair that returns the offer, leaves locationsTotal and locationIds of the
\* offer and hasOffer and offerIds of the location as the link found them,
\* whatever calls came before.
C14_LinkUnlinkRoundTrip ==
  \A p, q \in Calls :
    ( /\ calls[p].op = "link" /\ calls[p].outcome = "ok"
      /\ calls[q].op = "unlink" /\ calls[q].outcome = "ok"
      /\ calls[p].offerId = calls[q].offerId
      /\ calls[p].locationId = calls[q].locationId
      /\ calls[q].offer.updatedAt = calls[p].now
      /\ \A r \in Calls \ {p, q} : calls[r].pc = "idle" )
    => /\ offers[calls[p].offerId].locationsTotal = calls[p].offer.locationsTotal
       /\ offers[calls[p].offerId].locationIds = calls[p].offer.locationIds
       /\ locations[calls[p].locationId].offerIds = calls[p].location.offerIds
       /\ locations[calls[p].locationId].hasOffer = calls[p].location.hasOffer

\* Call q read its offer after call p's transaction had committed.
StartedAfterCommit(q, p) ==
  calls[p].outcome = "ok" /\ calls[q].offer.updatedAt = calls[p].now

\* The commit of a linkToLocation / unlinkFromLocation, seen in the store
C15_CommitDelta ==
  \A c \in Calls :
    (WriteAnswered(c) /\ calls'[c].outcome = "ok") =>
      LET o == calls[c].offerId
          l == calls[c].locationId
      IN IF calls[c].op = "link"
         THEN /\ locations'[l].offerIds = locations[l].offerIds \cup {o}
              /\ locations'[l].hasOffer
              /\ offers'[o].locationIds = offers[o].locationIds \cup {l}
              /\ offers'[o].locationsTotal = offers[o].locationsTotal + 1
         ELSE /\ locations'[l].offerIds = locations[l].offerIds \ {o}
              /\ offers'[o].locationIds = offers[o].locationIds \ {l}
              /\ offers'[o].locationsTotal = offers[o].locationsTotal - 1

\* link, then unlink, of an offer and a location that had no links, with no
\* other call
C15_FreshScenario ==
  \A p, q \in Calls :
    ( /\ calls[p].op = "link" /\ calls[p].outcome = "ok"
      /\ calls[p].offer.locationIds = {} /\ calls[p].location.offerIds = {}
      /\ \A r \in Calls \ {p, q} : calls[r].pc = "idle" )
    => LET o == calls[p].offerId
           l == calls[p].locationId
       IN /\ (p = q \/ calls[q].pc = "idle") =>
               /\ offers[o].locationsTotal = 1
               /\ locations[l].hasOffer
               /\ locations[l].offerIds = {o}
          /\ ( /\ calls[q].op = "unlink" /\ calls[q].outcome = "ok"
               /\ calls[q].offerId = o /\ calls[q].locationId = l
               /\ StartedAfterCommit(q, p) ) =>
               /\ offers[o].locationsTotal = 0
               /\ ~locations[l].hasOffer
               /\ locations[l].offerIds = {}

\* C15: a linkToLocation that returns the offer has added offerId to
\* location.offerIds, set hasOffer, added locationId to offer.locationIds and
\* made locationsTotal one more than just before the commit; an
\* unlinkFromLocation that returns the offer has removed both ids and made
\* locationsTotal one less.  From an offer and a location without links: link
\* gives locationsTotal 1, hasOffer true, offerIds = {offerId}; unlink then
\* gives locationsTotal 0, hasOffer false, offerIds empty.
C15_LinkUnlinkEffect == [][C15_CommitDelta]_vars /\ []C15_FreshScenario

C15_Witness ==
  \E p, q \in Calls :
    /\ calls[p].op = "link" /\ calls[p].outcome = "ok"
    /\ calls[p].offer.locationIds = {} /\ calls[p].location.offerIds = {}
    /\ calls[q].op = "unlink" /\ calls[q].outcome = "ok"
    /\ calls[q].offerId = calls[p].offerId
    /\ calls[q].locationId = calls[p].locationId
    /\ StartedAfterCommit(q, p)
    /\ offers[calls[p].offerId].locationsTotal = 0
    /\ ~locations[calls[p].locationId].hasOffer
    /\ locations[calls[p].locationId].offerIds = {}

\* C16: the offer a linkToLocation returns carries the locationsTotal and the
\* locationIds that the stored offer has right after the commit, also when
\* another call on the offer committed between this call's read and its write.
C16_LinkReturnsStoredOffer ==
  [][ \A c \in Calls :
        (WriteAnswered(c) /\ calls[c].op = "link" /\ calls'[c].outcome = "ok") =>
          /\ calls'[c].result.locationsTotal
               = offers'[calls[c].offerId].locationsTotal
          /\ calls'[c].result.locationIds
               = offers'[calls[c].offerId].locationIds ]_vars

\* No stored offer and no offer returned by unlinkFromLocation has a negative
\* locationsTotal.
C17_TotalNotNegative ==
  /\ \A o \in OfferIds : offers[o].locationsTotal >= 0
  /\ \A c \in Calls :
       (calls[c].op = "unlink" /\ calls[c].outcome = "ok") =>
         calls[c].result.locationsTotal >= 0

\* The store's answer to the transaction of unlinkFromLocation: the decrement
\* is applied only to a stored locationsTotal greater than 0.
C17_DecrementGuarded ==
  \A c \in Calls :
    (WriteAnswered(c) /\ calls[c].op = "unlink") =>
      IF offers[calls[c].offerId].locationsTotal > 0
      THEN calls'[c].outcome = "ok" =>
             offers'[calls[c].offerId].locationsTotal
               = offers[calls[c].offerId].locationsTotal - 1
      ELSE calls'[c].outcome # "ok" /\ offers' = offers

\* C17: in every reachable state every offer has locationsTotal >= 0: the
\* decrement is applied only when the stored locationsTotal is greater than 0
\* at write time, otherwise the write is rejected and the counter unchanged;
\* the locationsTotal unlinkFromLocation returns is never negative either.
C17_LocationsTotalFloor == []C17_TotalNotNegative /\ [][C17_DecrementGuarded]_vars

\* an unlink rejected at write time while the stored counter is 0
C17_Witness ==
  \E c \in Calls :
    /\ calls[c].op = "unlink" /\ calls[c].outcome = "NotFound"
    /\ calls[c].writes = 1
    /\ calls[c].error.reasons[2] = "ConditionalCheckFailed"
    /\ offers[calls[c].offerId].exists
    /\ offers[calls[c].offerId].locationsTotal = 0

\* The error transactWrite rejected call c with reports a failed write-time
\* condition.
ConditionFailure(c) ==
  \E i \in 1..2 : calls[c].error.reasons[i] = "ConditionalCheckFailed"

\* C18: an error of transactWrite that is no failure of a write-time condition
\* reaches the caller of linkToLocation / unlinkFromLocation as it is, never
\* as NotFound or Conflict.
C18_OtherErrorsPropagated ==
  \A c \in Calls :
    (IsLinkOp(c) /\ calls[c].error.name # "none" /\ ~ConditionFailure(c)) =>
      /\ calls[c].outcome = calls[c].error.name
      /\ ~(calls[c].outcome \in {"NotFound", "Conflict"})

\* No call has issued transactWrite more than once.
C19_OneWriteIssued ==
  \A c \in Calls : IsLinkOp(c) => calls[c].writes <= 1

\* The store's answer to transactWrite, whatever it is, ends the call, and a
\* call that has ended does nothing more.
C19_AnswerEndsCall ==
  \A c \in Calls :
    /\ (IsLinkOp(c) /\ calls[c].pc = "write" /\ calls'[c] # calls[c]) =>
         (calls'[c].pc = "done" /\ calls'[c].writes = calls[c].writes)
    /\ (IsLinkOp(c) /\ calls[c].pc = "done") => calls'[c] = calls[c]

\* C19: a linkToLocation / unlinkFromLocation call issues transactWrite at
\* most once, whatever the outcome (commit, condition failure, timeout or other
\* error): it never retries, so it cannot apply its increment or decrement
\* twice.
C19_AtMostOneWriteAttempt == []C19_OneWriteIssued /\ [][C19_AnswerEndsCall]_vars

\* one call whose write the store failed and one whose transaction it
\* cancelled, each after a single attempt
C19_Witness ==
  \E c, d \in Calls :
    /\ IsLinkOp(c) /\ calls[c].outcome = "ServiceUnavailable"
    /\ calls[c].writes = 1
    /\ IsLinkOp(d) /\ calls[d].error.name = "TransactionCanceledException"
    /\ calls[d].writes = 1

\* A call that has ended has one outcome: the offer, or one exception and no
\* offer.
C20_OneOutcome ==
  \A c \in Calls :
    IsLinkOp(c) =>
      IF calls[c].pc = "done"
      THEN \/ /\ calls[c].outcome = "ok"
              /\ calls[c].result.exists /\ calls[c].error.name = "none"
           \/ /\ calls[c].outcome \in {"NotFound", "Conflict", "ServiceUnavailable"}
              /\ calls[c].result = NoOffer
      ELSE calls[c].outcome = "none" /\ calls[c].result = NoOffer

C20_Completes ==
  \A c \in Calls : IsLinkOp(c) ~> (IsLinkOp(c) /\ calls[c].pc = "done")

\* C20: with a store that eventually answers each access, every
\* linkToLocation / unlinkFromLocation call eventually ends, with exactly one
\* outcome: the updated offer, NotFound, Conflict or the store's error.
C20_CallTerminates == []C20_OneOutcome /\ C20_Completes

\* calls that ended after both of their store accesses were answered
C20_Witness ==
  \E c, d \in Calls :
    /\ calls[c].op = "link" /\ calls[c].pc = "done" /\ calls[c].outcome = "ok"
    /\ calls[d].op = "unlink" /\ calls[d].pc = "done" /\ calls[d].writes = 1
    /\ calls[d].outcome = "NotFound"

\* C21: under all operations, removes of offers and locations included, every
\* id in a stored location's offerIds is the id of a stored offer whose
\* locationIds holds the location's id.
C21_OfferIdsNameLinkedOffers ==
  \A l \in LocationIds :
    locations[l].exists =>
      \A o \in locations[l].offerIds :
        offers[o].exists /\ l \in offers[o].locationIds

\* C22: no two stored brands have the same nameLower, also after concurrent
\* creates with names equal up to case.
C22_BrandNameLowerUnique ==
  \A a, b \in BrandKeys :
    (a # b /\ brands[a].exists /\ brands[b].exists) =>
      brands[a].nameLower # brands[b].nameLower

\* C23: no two stored locations of one brand have the same nameLower, after
\* any interleaving of location creates.
C23_LocationNameLowerUnique ==
  \A a, b \in LocationKeys :
    ( /\ a # b /\ locations[a].exists /\ locations[b].exists
      /\ locations[a].brandId = locations[b].brandId ) =>
      locations[a].nameLower # locations[b].nameLower

\* C24: no two stored offers of one brand have the same name, after any
\* interleaving of offer creates.
C24_OfferNameUnique ==
  \A a, b \in OfferKeys :
    ( /\ a # b /\ offers[a].exists /\ offers[b].exists
      /\ offers[a].brandId = offers[b].brandId ) =>
      offers[a].name # offers[b].name

\* C25: the brandId of every stored location and of every stored offer is the
\* id of a stored brand, also after the removal of a brand.
C25_BrandIdNamesBrand ==
  /\ \A l \in LocationKeys :
       locations[l].exists => brands[locations[l].brandId].exists
  /\ \A o \in OfferKeys :
       offers[o].exists => brands[offers[o].brandId].exists

\* Call c receives the answer of its uniqueness probe in this step.
ProbeAnswered(c) ==
  \/ calls[c].pc = "idle" /\ calls'[c].op = "createBrand"
  \/ calls[c].pc = "probe" /\ calls'[c].pc # "probe"

\* A stored entity has the name call requests, in the scope of the entity kind.
NameTaken(call) ==
  CASE call.op \in {"createBrand", "updateBrand"} ->
         \E b \in BrandKeys :
           brands[b].exists /\ brands[b].nameLower = toLowerCase(call.dto.name)
    [] call.op \in {"createLocation", "updateLocation"} ->
         \E l \in LocationKeys :
           /\ locations[l].exists
           /\ locations[l].brandId = IF call.op = "createLocation"
                                     THEN call.brandId ELSE call.location.brandId
           /\ locations[l].nameLower = toLowerCase(call.dto.name)
    [] call.op \in {"createOffer", "updateOffer"} ->
         \E o \in OfferKeys :
           /\ offers[o].exists
           /\ offers[o].brandId = IF call.op = "createOffer"
                                  THEN call.brandId ELSE call.offer.brandId
           /\ offers[o].name = call.dto.name
    [] OTHER -> FALSE

\* C26: when the uniqueness probe of a create or an update of a brand, a
\* location or an offer finds a stored entity with the requested name in scope
\* (brand: nameLower; location: brandId and nameLower; offer: brandId and
\* name), the call ends with Conflict, the step changes no table, and the call
\* has issued no write.
C26_ProbeHitIsConflict ==
  [][ \A c \in Calls :
        (ProbeAnswered(c) /\ NameTaken(calls'[c])) =>
          /\ calls'[c].pc = "done" /\ calls'[c].outcome = "Conflict"
          /\ calls'[c].writes = 0
          /\ offers' = offers /\ locations' = locations /\ brands' = brands ]_vars

\* A create of an offer and an update of a brand have both ended with Conflict.
C26_Witness ==
  \E c, d \in Calls :
    /\ calls[c].op = "createOffer" /\ calls[c].outcome = "Conflict"
    /\ calls[d].op = "updateBrand" /\ calls[d].outcome = "Conflict"

\* C27: a create of a location or of an offer whose brandId names no stored
\* brand ends with NotFound at its first step, which changes no table, and the
\* call has issued no write.
C27_CreateInMissingBrand ==
  [][ \A c \in Calls :
        ( /\ calls[c].pc = "idle"
          /\ calls'[c].op \in {"createLocation", "createOffer"}
          /\ ~brands[calls'[c].brandId].exists ) =>
          /\ calls'[c].pc = "done" /\ calls'[c].outcome = "NotFound"
          /\ calls'[c].writes = 0
          /\ offers' = offers /\ locations' = locations /\ brands' = brands ]_vars

\* A create of a location and a create of an offer in brands that are not
\* stored have both ended with NotFound, and no record was created.
C27_Witness ==
  \E c, d \in Calls :
    /\ calls[c].op = "createLocation" /\ calls[c].outcome = "NotFound"
    /\ calls[d].op = "createOffer" /\ calls[d].outcome = "NotFound"
    /\ ~brands[calls[c].brandId].exists /\ ~brands[calls[d].brandId].exists
    /\ \A n \in NewIds : ~offers[n].exists /\ ~locations[n].exists

\* The record that the findOne, update or remove call names, as stored now.
Named(call) ==
  CASE call.op \in {"findBrand", "updateBrand", "removeBrand"} ->
         brands[call.brandId].exists
    [] call.op \in {"findLocation", "updateLocation", "removeLocation"} ->
         locations[call.locationId].exists
    [] call.op \in {"findOffer", "updateOffer", "removeOffer"} ->
         offers[call.offerId].exists

\* C28: a findOne, an update or a remove of a brand, a location or an offer
\* whose id is not stored ends with NotFound at its first step, which changes
\* no table; the call has issued no write and no delete.
C28_UnknownIdIsNotFound ==
  [][ \A c \in Calls :
        ( /\ calls[c].pc = "idle"
          /\ calls'[c].op \in {"findBrand", "updateBrand", "removeBrand",
                               "findLocation", "updateLocation", "removeLocation",
                               "findOffer", "updateOffer", "removeOffer"}
          /\ ~Named(calls'[c]) ) =>
          /\ calls'[c].pc = "done" /\ calls'[c].outcome = "NotFound"
          /\ calls'[c].writes = 0
          /\ offers' = offers /\ locations' = locations /\ brands' = brands ]_vars

\* An update of the never-created offer o0 and a remove of the never-created
\* brand b0 have both ended with NotFound.
C28_Witness ==
  \E c, d \in Calls :
    /\ calls[c].op = "updateOffer" /\ calls[c].offerId = "o0"
    /\ calls[c].outcome = "NotFound"
    /\ calls[d].op = "removeBrand" /\ calls[d].brandId = "b0"
    /\ calls[d].outcome = "NotFound"

\* C29: before any link, every offer stored by a create has locationsTotal = 0
\* and no locationIds, and every location stored by a create has
\* hasOffer = FALSE and no offerIds.
C29_CreatedUnlinked ==
  \A n \in NewIds :
    /\ offers[n].exists =>
         offers[n].locationsTotal = 0 /\ offers[n].locationIds = {}
    /\ locations[n].exists =>
         locations[n].hasOffer = FALSE /\ locations[n].offerIds = {}

\* A create has stored an offer and another create has stored a location.
C29_Witness ==
  \E c, d \in Calls :
    /\ calls[c].op = "createOffer" /\ calls[c].outcome = "ok"
    /\ offers[calls[c].offerId].exists
    /\ calls[d].op = "createLocation" /\ calls[d].outcome = "ok"
    /\ locations[calls[d].locationId].exists

\* C30: in every reachable state every stored brand and every stored location
\* has nameLower equal to the lower-cased form of its name.
C30_NameLowerIsLowerName ==
  /\ \A b \in BrandKeys :
       brands[b].exists => brands[b].nameLower = toLowerCase(brands[b].name)
  /\ \A l \in LocationKeys :
       locations[l].exists =>
         locations[l].nameLower = toLowerCase(locations[l].name)

\* C31: the hasOffer value that a committed unlinkFromLocation writes to the
\* location is TRUE if and only if the offerIds of the location, as this call
\* read them, contain an id other than the offer being unlinked.
C31_UnlinkWritesHasOffer ==
  [][ \A c \in Calls :
        ( /\ WriteAnswered(c) /\ calls[c].op = "unlink"
          /\ calls'[c].outcome = "ok" ) =>
          locations'[calls[c].locationId].hasOffer
            = (\E id \in calls[c].location.offerIds : id # calls[c].offerId) ]_vars

\* One unlink read both offers on the location and wrote hasOffer = TRUE; a
\* later unlink read the last offer and wrote hasOffer = FALSE.
C31_Witness ==
  \E c, d \in Calls :
    /\ calls[c].op = "unlink" /\ calls[c].outcome = "ok"
    /\ calls[c].location.offerIds = {"o1", "o2"} /\ calls[c].hasOffer
    /\ calls[d].op = "unlink" /\ calls[d].outcome = "ok"
    /\ Cardinality(calls[d].location.offerIds) = 1 /\ ~calls[d].hasOffer
    /\ ~locations["l1"].hasOffer

\* The store has just decided the transaction of call c on the conditions of
\* its two items: it committed, or it cancelled for a failed condition.
ConditionsDecided(c) ==
  /\ WriteAnswered(c)
  /\ \/ calls'[c].outcome = "ok"
     \/ /\ calls'[c].error.name = "TransactionCanceledException"
        /\ \A i \in 1..2 :
             calls'[c].error.reasons[i] \in {"None", "ConditionalCheckFailed"}

\* C32: when the store decides the write of linkToLocation, it accepts it if
\* and only if, in the store at that moment and whatever the call read
\* earlier, the location's offerIds do not contain offerId and the offer's
\* locationIds do not contain locationId (an absent set contains nothing);
\* it accepts the write of unlinkFromLocation if and only if the location's
\* offerIds contain offerId, the offer's locationsTotal is above 0 and the
\* offer's locationIds contain locationId.
C32_WriteConditions ==
  [][ \A c \in Calls :
        ConditionsDecided(c) =>
          LET o == calls[c].offerId
              l == calls[c].locationId
          IN /\ calls[c].op = "link" =>
                  ( calls'[c].outcome = "ok"
                      <=> /\ o \notin locations[l].offerIds
                          /\ l \notin offers[o].locationIds )
             /\ calls[c].op = "unlink" =>
                  ( calls'[c].outcome = "ok"
                      <=> /\ o \in locations[l].offerIds
                          /\ offers[o].locationsTotal > 0
                          /\ l \in offers[o].locationIds ) ]_vars

\* Two links of one pair both read the location without the offer; the store
\* accepted one and refused the other on its conditions.
C32_Witness ==
  \E c, d \in Calls :
    /\ c # d
    /\ calls[c].op = "link" /\ calls[d].op = "link"
    /\ calls[c].offerId = calls[d].offerId
    /\ calls[c].locationId = calls[d].locationId
    /\ calls[c].offerId \notin calls[c].location.offerIds
    /\ calls[d].offerId \notin calls[d].location.offerIds
    /\ calls[c].outcome = "ok"
    /\ calls[d].outcome = "Conflict" /\ ConditionFailure(d)

\* The outcome of the preconditions of a link or unlink call that has read
\* offer and location: the first that fails in the order location exists, same
\* brand, link state; "none" when all hold.
FirstFailure(op, offer, location, offerId) ==
  IF ~location.exists THEN "NotFound"
  ELSE IF location.brandId # offer.brandId THEN "Conflict"
  ELSE IF op = "link" /\ offerId \in location.offerIds THEN "Conflict"
  ELSE IF op = "unlink" /\ offerId \notin location.offerIds THEN "NotFound"
  ELSE "none"

\* C33: linkToLocation and unlinkFromLocation check, in this order, that the
\* offer exists, that the location exists, that both have one brand, and the
\* link state; the call ends with the error of the first check that fails and
\* issues no write. A missing offer ends the call with NotFound before the
\* location is read; on a pair of different brands unlinkFromLocation ends
\* with Conflict although the pair is not linked.
C33_PreconditionOrder ==
  [][ \A c \in Calls :
        /\ ( /\ calls[c].pc = "idle" /\ calls'[c].op \in {"link", "unlink"}
             /\ ~offers[calls'[c].offerId].exists ) =>
             /\ calls'[c].pc = "done" /\ calls'[c].outcome = "NotFound"
             /\ calls'[c].writes = 0
             /\ offers' = offers /\ locations' = locations
        /\ LocationAnswered(c) =>
             LET failure == FirstFailure(calls[c].op, calls[c].offer,
                                         locations[calls[c].locationId],
                                         calls[c].offerId)
             IN IF failure = "none"
                THEN calls'[c].pc = "write" /\ calls'[c].writes = 1
                ELSE /\ calls'[c].pc = "done" /\ calls'[c].outcome = failure
                     /\ calls'[c].writes = 0
                     /\ offers' = offers /\ locations' = locations ]_vars

\* A link of the never-created offer o0 to the never-created location l0 has
\* ended with NotFound without reading the location, and an unlink of a pair
\* of different brands that is not linked has ended with Conflict.
C33_Witness ==
  \E c, d \in Calls :
    /\ calls[c].op = "link" /\ calls[c].offerId = "o0"
    /\ calls[c].locationId = "l0" /\ calls[c].outcome = "NotFound"
    /\ calls[d].op = "unlink" /\ calls[d].outcome = "Conflict"
    /\ calls[d].offer.brandId # locations[calls[d].locationId].brandId
    /\ calls[d].offerId \notin locations[calls[d].locationId].offerIds
    /\ calls[d].writes = 0

\* C34: when two linkToLocation calls of one offer and two distinct locations
\* of its brand, neither linked to it, have both read the offer before either
\* wrote and both have had the answer of the store, both have succeeded, the
\* stored locationsTotal is two higher than the one they read and locationIds
\* holds both locations.
C34_ConcurrentLinksBothSucceed ==
  \A c, d \in Calls :
    ( /\ c # d
      /\ calls[c].op = "link" /\ calls[d].op = "link"
      /\ calls[c].offerId = calls[d].offerId
      /\ calls[c].locationId # calls[d].locationId
      /\ calls[c].pc = "done" /\ calls[d].pc = "done"
      /\ calls[c].writes = 1 /\ calls[d].writes = 1
      /\ calls[c].offer = calls[d].offer
      /\ calls[c].error.name # "ServiceUnavailable"
      /\ calls[d].error.name # "ServiceUnavailable"
      /\ \A r \in Calls \ {c, d} : calls[r].pc = "idle" ) =>
      /\ calls[c].outcome = "ok" /\ calls[d].outcome = "ok"
      /\ offers[calls[c].offerId].locationsTotal
           = calls[c].offer.locationsTotal + 2
      /\ {calls[c].locationId, calls[d].locationId}
           \subseteq offers[calls[c].offerId].locationIds

\* C35: in every reachable state every linked pair shares a brand: whenever
\* the id of a stored offer is in the offerIds of a stored location, the
\* brandId of the location is the brandId of the offer.
C35_LinkedPairSharesBrand ==
  \A l \in LocationKeys : \A o \in OfferKeys :
    (locations[l].exists /\ offers[o].exists /\ o \in locations[l].offerIds) =>
      locations[l].brandId = offers[o].brandId

\* C36: a linkToLocation(offerId, locationId) or unlinkFromLocation(offerId,
\* locationId) that commits changes no offer other than offerId, no location
\* other than locationId and no brand, and leaves brandId, name, description
\* and createdAt of the offer and brandId, name, nameLower, address and
\* createdAt of the location as they were.
C36_CommitFrame ==
  [][ \A c \in Calls :
        (WriteAnswered(c) /\ calls'[c].outcome = "ok") =>
          LET o == calls[c].offerId
              l == calls[c].locationId
          IN /\ \A p \in OfferKeys \ {o} : offers'[p] = offers[p]
             /\ \A q \in LocationKeys \ {l} : locations'[q] = locations[q]
             /\ brands' = brands
             /\ offers'[o].exists
             /\ offers'[o].brandId = offers[o].brandId
             /\ offers'[o].name = offers[o].name
             /\ offers'[o].description = offers[o].description
             /\ offers'[o].createdAt = offers[o].createdAt
             /\ locations'[l].exists
             /\ locations'[l].brandId = locations[l].brandId
             /\ locations'[l].name = locations[l].name
             /\ locations'[l].nameLower = locations[l].nameLower
             /\ locations'[l].address = locations[l].address
             /\ locations'[l].createdAt = locations[l].createdAt ]_vars

\* A link and an unlink have both committed.
C36_Witness ==
  \E c, d \in Calls :
    /\ calls[c].op = "link" /\ calls[c].outcome = "ok"
    /\ calls[d].op = "unlink" /\ calls[d].outcome = "ok"
    /\ locations[calls[c].locationId].name # NoValue
    /\ offers[calls[c].offerId].name # NoValue

\* The change of locationsTotal that a committed call of this operation makes
Step(op) == IF op = "link" THEN 1 ELSE 0 - 1

KeepsOwnName(call, brand, location, offer) ==
  /\ call.dto.name \notin {NoValue, ""}
  /\ CASE call.op = "updateBrand" ->
            brand.exists /\ toLowerCase(call.dto.name) = brand.nameLower
       [] call.op = "updateLocation" ->
            location.exists /\ toLowerCase(call.dto.name) = location.nameLower
       [] call.op = "updateOffer" ->
            offer.exists /\ call.dto.name = offer.name
       [] OTHER -> FALSE

\* C38: an update of a brand, a location or an offer that asks for the name
\* the record it reads already has (brand and location: up to letter case)
\* goes from the read to the write without a uniqueness probe and ends with
\* success, and the record it writes is the record it read with the supplied
\* name and a new updatedAt and nothing else changed.
C38_OwnNameNoProbe ==
  [][ \A c \in Calls :
        /\ ( /\ calls[c].pc = "idle"
             /\ KeepsOwnName(calls'[c], brands[calls'[c].brandId],
                             locations[calls'[c].locationId],
                             offers[calls'[c].offerId]) ) =>
             calls'[c].pc = "put" /\ calls'[c].writes = 1
        /\ ( /\ calls[c].pc = "put" /\ calls'[c].pc = "done"
             /\ KeepsOwnName(calls[c], calls[c].brand, calls[c].location,
                             calls[c].offer) ) =>
             /\ calls'[c].outcome = "ok"
             /\ calls[c].op = "updateBrand" =>
                  brands'[calls[c].brandId] =
                    [calls[c].brand EXCEPT !.name = calls[c].dto.name,
                                           !.updatedAt = calls[c].now]
             /\ calls[c].op = "updateLocation" =>
                  locations'[calls[c].locationId] =
                    [calls[c].location EXCEPT !.name = calls[c].dto.name,
                                              !.updatedAt = calls[c].now]
             /\ calls[c].op = "updateOffer" =>
                  offers'[calls[c].offerId] =
                    [calls[c].offer EXCEPT !.name = calls[c].dto.name,
                                           !.updatedAt = calls[c].now] ]_vars

\* An update of brand b1, stored as "A", to the name "a" and an update of
\* location l1, stored as "A", to the name "a" have both succeeded.
C38_Witness ==
  \E c, d \in Calls :
    /\ calls[c].op = "updateBrand" /\ calls[c].outcome = "ok"
    /\ calls[c].brand.name = "A" /\ calls[c].dto.name = "a"
    /\ brands[calls[c].brandId].name = "a"
    /\ calls[d].op = "updateLocation" /\ calls[d].outcome = "ok"
    /\ calls[d].location.name = "A" /\ calls[d].dto.name = "a"
    /\ locations[calls[d].locationId].name = "a"

====
